---- MODULE Spec2Model ----
(***************************************************************************)
(* MinVarPort.py: the Streamlit script that finds the tangency portfolio   *)
(* of two risky assets by grid search and the investor's complete          *)
(* portfolio by the mean-variance first-order condition.                   *)
(*                                                                         *)
(* Numbers.  The script computes in floating point; the model computes in  *)
(* exact arithmetic.  A rational is a record [n, d] in lowest terms with   *)
(* d > 0.  The values that come out of np.sqrt (standard deviations) and   *)
(* the quotients by them (Sharpe ratios) are real numbers of the form      *)
(* +-sqrt(q), q rational: such a number x is held as its signed square     *)
(* [ssq |-> sgn(x) * x^2], which is exact and order preserving.  NaN and   *)
(* -inf are values of their own.  Rounding is not modelled.                *)
(***************************************************************************)
EXTENDS Integers, Sequences, FiniteSets, TLC

(***************************************************************************)
(* Bounds                                                                  *)
(***************************************************************************)
\* number of samples of np.linspace(0, 1, 1000) in find_tangency_portfolio
GridN == 5

\* the percent inputs are divided by 100
Percent == 100

(***************************************************************************)
(* Exact rational arithmetic: Python's +, -, *, /, abs, comparisons        *)
(***************************************************************************)
Abs(x) == IF x < 0 THEN -x ELSE x

Sgn(x) == IF x < 0 THEN -1 ELSE IF x = 0 THEN 0 ELSE 1

RECURSIVE GCD(_, _)
GCD(a, b) == IF b = 0 THEN a ELSE GCD(b, a % b)

Rat(n, d) ==
    LET g == GCD(Abs(n), Abs(d))
        s == IF d < 0 THEN -1 ELSE 1
    IN  [n |-> (s * n) \div g, d |-> (s * d) \div g]

Zero == Rat(0, 1)

One == Rat(1, 1)

RNeg(a) == [n |-> -a.n, d |-> a.d]

RAdd(a, b) ==
    LET g == GCD(a.d, b.d)
    IN  Rat(a.n * (b.d \div g) + b.n * (a.d \div g), a.d * (b.d \div g))

RSub(a, b) == RAdd(a, RNeg(b))

RMul(a, b) ==
    LET g1 == GCD(Abs(a.n), b.d)
        g2 == GCD(Abs(b.n), a.d)
    IN  Rat((a.n \div g1) * (b.n \div g2), (a.d \div g2) * (b.d \div g1))

\* a / b for b # 0
RDiv(a, b) == RMul(a, Rat(b.d, b.n))

RSq(a) == RMul(a, a)

RAbs(a) == [n |-> Abs(a.n), d |-> a.d]

RSgn(a) == Sgn(a.n)

\* a/b < c/d for b > 0 and d > 0, by the integer parts and then the remainders
\* (no products, so no overflow)
RECURSIVE FracLt(_, _, _, _)
FracLt(a, b, c, d) ==
    IF a \div b # c \div d THEN a \div b < c \div d
    ELSE IF c % d = 0 THEN FALSE
    ELSE IF a % b = 0 THEN TRUE
    ELSE FracLt(d, c % d, b, a % b)

RLt(a, b) == FracLt(a.n, a.d, b.n, b.d)

RLe(a, b) == ~RLt(b, a)

(***************************************************************************)
(* Values of np.sqrt and quotients by them, NaN, -inf                      *)
(***************************************************************************)
NaN == [nan |-> TRUE]

NegInf == [inf |-> -1]

\* a variable the script has not assigned yet in this run
None == [unset |-> TRUE]

\* np.sqrt(x): NaN for a negative argument
Sqrt(x) == IF RLt(x, Zero) THEN NaN ELSE [ssq |-> x]

\* s > 0 (False for NaN)
SurdGtZero(s) == s # NaN /\ RLt(Zero, s.ssq)

\* s ** 2
SurdSquare(s) == IF s = NaN THEN NaN ELSE RAbs(s.ssq)

\* c * s for a rational c: the signed square is sgn(c) * c * (c * s^2)
SurdScale(c, s) ==
    IF s = NaN THEN NaN
    ELSE [ssq |-> RMul(RAbs(c), RMul(c, s.ssq))]

\* a / s for a rational a and s > 0
RatDivSurd(a, s) ==
    [ssq |-> RMul(Rat(RSgn(a), 1), RDiv(RSq(a), s.ssq))]

\* a <= b for Sharpe ratios, -inf below every number
SharpeLe(a, b) ==
    \/ a = NegInf
    \/ b # NegInf /\ RLe(a.ssq, b.ssq)

(***************************************************************************)
(* Core calculations                                                       *)
(***************************************************************************)
\* np.linspace(start, stop, num)[i], i in 0 .. num-1
Linspace(start, stop, num, i) ==
    RAdd(start, RMul(Rat(i, 1), RDiv(RSub(stop, start), Rat(num - 1, 1))))

weights(i) == Linspace(Zero, One, GridN, i)

portfolio_ret(w1, r1, r2) ==
    RAdd(RMul(w1, r1), RMul(RSub(One, w1), r2))

\* the argument of np.sqrt in portfolio_sd
Radicand(w1, sd1, sd2, rho) ==
    RAdd(RAdd(RMul(RSq(w1), RSq(sd1)),
              RMul(RSq(RSub(One, w1)), RSq(sd2))),
         RMul(RMul(RMul(Rat(2, 1), rho), RMul(w1, RSub(One, w1))),
              RMul(sd1, sd2)))

portfolio_sd(w1, sd1, sd2, rho) == Sqrt(Radicand(w1, sd1, sd2, rho))

\* mutant: the else branch appends 0 instead of -inf
SharpeAtZeroWhenFlat(w, r1, r2, sd1, sd2, rho, rf) ==
    LET ret == portfolio_ret(w, r1, r2)
        sd  == portfolio_sd(w, sd1, sd2, rho)
    IN  IF SurdGtZero(sd) THEN RatDivSurd(RSub(ret, rf), sd) ELSE [ssq |-> Zero]

\* the body of the loop of find_tangency_portfolio for one weight
SharpeAt(w, r1, r2, sd1, sd2, rho, rf) ==
    LET ret == portfolio_ret(w, r1, r2)
        sd  == portfolio_sd(w, sd1, sd2, rho)
    IN  IF SurdGtZero(sd) THEN RatDivSurd(RSub(ret, rf), sd) ELSE NegInf

\* mutant: np.argmin in place of np.argmax
ArgMin(s) ==
    CHOOSE i \in 0 .. Len(s) - 1 :
        /\ \A j \in 0 .. Len(s) - 1 : SharpeLe(s[i + 1], s[j + 1])
        /\ \A j \in 0 .. i - 1 : ~SharpeLe(s[j + 1], s[i + 1])

\* mutant: the last maximum instead of the first
ArgMaxLast(s) ==
    CHOOSE i \in 0 .. Len(s) - 1 :
        /\ \A j \in 0 .. Len(s) - 1 : SharpeLe(s[j + 1], s[i + 1])
        /\ \A j \in i + 1 .. Len(s) - 1 : ~SharpeLe(s[i + 1], s[j + 1])

\* np.argmax of a non-empty list: the 0-based index of the first maximum
ArgMax(s) ==
    CHOOSE i \in 0 .. Len(s) - 1 :
        /\ \A j \in 0 .. Len(s) - 1 : SharpeLe(s[j + 1], s[i + 1])
        /\ \A j \in 0 .. i - 1 : ~SharpeLe(s[i + 1], s[j + 1])

(***************************************************************************)
(* State: the widgets of the sidebar, the position of the script run and   *)
(* the script's variables                                                  *)
(***************************************************************************)
VARIABLES
    widgets,            \* the values the sidebar widgets hold
    pc,                 \* position of the current script run
    r_h, sd_h, r_f, sd_f, rho_hf, r_free, gamma,
    sharpe_ratios,      \* the list find_tangency_portfolio builds
    w1_tangency, sharpe_tangency, w2_tangency,
    ret_tangency, sd_tangency,
    w_tangency_optimal,
    w1_optimal, w2_optimal, w_rf_optimal,
    ret_optimal, sd_optimal, utility_optimal,
    sd_args, sd_result  \* one call of portfolio_sd on its own

inputs == <<r_h, sd_h, r_f, sd_f, rho_hf, r_free, gamma>>

tangency == <<w1_tangency, sharpe_tangency, w2_tangency, ret_tangency, sd_tangency>>

allocation == <<w1_optimal, w2_optimal, w_rf_optimal>>

characteristics == <<ret_optimal, sd_optimal, utility_optimal>>

sdcall == <<sd_args, sd_result>>

vars == <<widgets, pc, inputs, sharpe_ratios, tangency, w_tangency_optimal,
          allocation, characteristics, sdcall>>

(***************************************************************************)
(* The values a user enters                                                *)
(***************************************************************************)
\* expected returns and risk-free rate, in percent
RetValues == {Rat(2, 1), Rat(5, 1), Rat(12, 1)}

\* standard deviations, in percent (the widget sets no minimum)
SdValues == {Rat(-9, 1), Zero, Rat(9, 1), Rat(20, 1)}

\* what a user types into the correlation field
RhoValues == {Rat(-2, 1), Rat(-1, 1), Rat(-1, 5), Zero, One, Rat(3, 2)}

RfValues == {Rat(2, 1), Rat(5, 1)}

\* positions a user drags the risk-aversion slider to
GammaValues == {Zero, Rat(1, 10), One, Rat(5, 1), Rat(10, 1), Rat(11, 1)}

WidgetNames == {"r1", "sd1", "r2", "sd2", "rho", "rfree", "gamma"}

\* the values a widget accepts: number_input without limits takes any
\* number, the correlation field has min_value=-1.0 and max_value=1.0, the
\* slider has min_value=0.1 and max_value=10.0
Accepts(name, v) ==
    CASE name \in {"r1", "r2"}   -> v \in RetValues
      [] name \in {"sd1", "sd2"} -> v \in SdValues
      [] name = "rho"            -> v \in RhoValues /\ RLe(Rat(-1, 1), v) /\ RLe(v, One)
      [] name = "rfree"          -> v \in RfValues
      [] name = "gamma"          -> v \in GammaValues /\ RLe(Rat(1, 10), v) /\ RLe(v, Rat(10, 1))

AllValues == RetValues \cup SdValues \cup RhoValues \cup RfValues \cup GammaValues

\* the value= arguments of the widgets
DefaultWidgets ==
    [r1 |-> Rat(5, 1), sd1 |-> Rat(9, 1), r2 |-> Rat(12, 1), sd2 |-> Rat(20, 1),
     rho |-> Rat(-1, 5), rfree |-> Rat(2, 1), gamma |-> Rat(5, 1)]

Init ==
    /\ widgets = DefaultWidgets
    /\ pc = "sidebar"
    /\ r_h = None /\ sd_h = None /\ r_f = None /\ sd_f = None
    /\ rho_hf = None /\ r_free = None /\ gamma = None
    /\ sharpe_ratios = << >>
    /\ w1_tangency = None /\ sharpe_tangency = None /\ w2_tangency = None
    /\ ret_tangency = None /\ sd_tangency = None
    /\ w_tangency_optimal = None
    /\ w1_optimal = None /\ w2_optimal = None /\ w_rf_optimal = None
    /\ ret_optimal = None /\ sd_optimal = None /\ utility_optimal = None
    /\ sd_args = None /\ sd_result = None

(***************************************************************************)
(* The script, top to bottom                                               *)
(***************************************************************************)
\* lines 18-37: read the sidebar
ReadSidebar ==
    /\ pc = "sidebar"
    /\ r_h' = RDiv(widgets.r1, Rat(Percent, 1))
    /\ sd_h' = RDiv(widgets.sd1, Rat(Percent, 1))
    /\ r_f' = RDiv(widgets.r2, Rat(Percent, 1))
    /\ sd_f' = RDiv(widgets.sd2, Rat(Percent, 1))
    /\ rho_hf' = widgets.rho
    /\ r_free' = RDiv(widgets.rfree, Rat(Percent, 1))
    /\ gamma' = widgets.gamma
    /\ pc' = "grid"
    /\ UNCHANGED <<widgets, sharpe_ratios, tangency, w_tangency_optimal,
                   allocation, characteristics, sdcall>>

\* lines 66-73: one iteration of the loop over the weights
GridStep ==
    /\ pc = "grid"
    /\ Len(sharpe_ratios) < GridN
    /\ sharpe_ratios' =
          Append(sharpe_ratios,
                 SharpeAt(weights(Len(sharpe_ratios)), r_h, r_f, sd_h, sd_f, rho_hf, r_free))
    /\ UNCHANGED <<widgets, pc, inputs, tangency, w_tangency_optimal,
                   allocation, characteristics, sdcall>>

\* lines 75-76 and 79-80: the argmax, the return and the caller's assignments
FindTangency ==
    /\ pc = "grid"
    /\ Len(sharpe_ratios) = GridN
    /\ LET max_idx == ArgMax(sharpe_ratios)
       IN  /\ w1_tangency' = weights(max_idx)
           /\ sharpe_tangency' = sharpe_ratios[max_idx + 1]
           /\ w2_tangency' = RSub(One, weights(max_idx))
    /\ pc' = "tangency"
    /\ UNCHANGED <<widgets, inputs, sharpe_ratios, ret_tangency, sd_tangency,
                   w_tangency_optimal, allocation, characteristics, sdcall>>

\* lines 82-83
TangencyPoint ==
    /\ pc = "tangency"
    /\ ret_tangency' = portfolio_ret(w1_tangency, r_h, r_f)
    /\ sd_tangency' = portfolio_sd(w1_tangency, sd_h, sd_f, rho_hf)
    /\ pc' = "share"
    /\ UNCHANGED <<widgets, inputs, sharpe_ratios, w1_tangency, sharpe_tangency,
                   w2_tangency, w_tangency_optimal, allocation, characteristics, sdcall>>

\* mutant: the else branch invests everything in the tangency portfolio
TangencyShareElseOne(ret_t, sd_t, rf, g) ==
    IF SurdGtZero(sd_t)
    THEN RDiv(RSub(ret_t, rf), RMul(g, SurdSquare(sd_t)))
    ELSE One

\* mutant: gamma left out of the denominator
TangencyShareNoGamma(ret_t, sd_t, rf, g) ==
    IF SurdGtZero(sd_t)
    THEN RDiv(RSub(ret_t, rf), SurdSquare(sd_t))
    ELSE Zero

\* mutant: the 1/2 of the utility carried into the denominator
TangencyShareHalf(ret_t, sd_t, rf, g) ==
    IF SurdGtZero(sd_t)
    THEN RDiv(RSub(ret_t, rf), RMul(RMul(Rat(2, 1), g), SurdSquare(sd_t)))
    ELSE Zero

\* lines 86-89
TangencyShare(ret_t, sd_t, rf, g) ==
    IF SurdGtZero(sd_t)
    THEN RDiv(RSub(ret_t, rf), RMul(g, SurdSquare(sd_t)))
    ELSE Zero

Allocate ==
    /\ pc = "share"
    /\ w_tangency_optimal' = TangencyShare(ret_tangency, sd_tangency, r_free, gamma)
    /\ pc' = "weights"
    /\ UNCHANGED <<widgets, inputs, sharpe_ratios, tangency, allocation,
                   characteristics, sdcall>>

\* mutant: the risk-free weight from the size of the share
WeightRiskFreeAbs(share) == RSub(One, RAbs(share))

\* lines 92-94
Weight1(share, w1_t) == RMul(share, w1_t)

Weight2(share, w2_t) == RMul(share, w2_t)

WeightRiskFree(share) == RSub(One, share)

CompleteWeights ==
    /\ pc = "weights"
    /\ w1_optimal' = Weight1(w_tangency_optimal, w1_tangency)
    /\ w2_optimal' = Weight2(w_tangency_optimal, w2_tangency)
    /\ w_rf_optimal' = WeightRiskFree(w_tangency_optimal)
    /\ pc' = "characteristics"
    /\ UNCHANGED <<widgets, inputs, sharpe_ratios, tangency, w_tangency_optimal,
                   characteristics, sdcall>>

\* mutant: abs() left out
SdOptimalNoAbs(share, sd_t) == SurdScale(share, sd_t)

\* lines 97-99
RetOptimal(rf, share, ret_t) == RAdd(rf, RMul(share, RSub(ret_t, rf)))

SdOptimal(share, sd_t) == SurdScale(RAbs(share), sd_t)

UtilityOptimal(ret_o, g, sd_o) ==
    IF sd_o = NaN THEN NaN
    ELSE RSub(ret_o, RMul(RDiv(g, Rat(2, 1)), SurdSquare(sd_o)))

Characteristics ==
    /\ pc = "characteristics"
    /\ ret_optimal' = RetOptimal(r_free, w_tangency_optimal, ret_tangency)
    /\ sd_optimal' = SdOptimal(w_tangency_optimal, sd_tangency)
    /\ utility_optimal' =
          UtilityOptimal(RetOptimal(r_free, w_tangency_optimal, ret_tangency), gamma,
                         SdOptimal(w_tangency_optimal, sd_tangency))
    /\ pc' = "shown"
    /\ UNCHANGED <<widgets, inputs, sharpe_ratios, tangency, w_tangency_optimal,
                   allocation, sdcall>>

\* the user changes one widget: Streamlit runs the script again from the top
\* with fresh variables
WidgetChange ==
    /\ pc = "shown"
    /\ \E name \in WidgetNames, v \in AllValues :
          /\ Accepts(name, v)
          /\ v # widgets[name]
          /\ widgets' = [widgets EXCEPT ![name] = v]
    /\ pc' = "sidebar"
    /\ r_h' = None /\ sd_h' = None /\ r_f' = None /\ sd_f' = None
    /\ rho_hf' = None /\ r_free' = None /\ gamma' = None
    /\ sharpe_ratios' = << >>
    /\ w1_tangency' = None /\ sharpe_tangency' = None /\ w2_tangency' = None
    /\ ret_tangency' = None /\ sd_tangency' = None
    /\ w_tangency_optimal' = None
    /\ w1_optimal' = None /\ w2_optimal' = None /\ w_rf_optimal' = None
    /\ ret_optimal' = None /\ sd_optimal' = None /\ utility_optimal' = None
    /\ UNCHANGED sdcall

Next ==
    \/ ReadSidebar
    \/ GridStep
    \/ FindTangency
    \/ TangencyPoint
    \/ Allocate
    \/ CompleteWeights
    \/ Characteristics
    \/ WidgetChange

Spec == Init /\ [][Next]_vars

(***************************************************************************)
(* portfolio_sd as a function of its own: one call with arbitrary          *)
(* arguments, the weight and the correlation not confined to their ranges  *)
(***************************************************************************)
SdWeights == {Rat(-1, 2), Zero, Rat(1, 2), One, Rat(3, 2)}

SdStdDevs == {Zero, Rat(9, 100), Rat(1, 5)}

SdRhos == {Rat(-2, 1), Rat(-1, 1), Rat(-1, 5), Zero, One, Rat(2, 1)}

InitSd ==
    /\ widgets = DefaultWidgets
    /\ pc = "sd_call"
    /\ r_h = None /\ sd_h = None /\ r_f = None /\ sd_f = None
    /\ rho_hf = None /\ r_free = None /\ gamma = None
    /\ sharpe_ratios = << >>
    /\ w1_tangency = None /\ sharpe_tangency = None /\ w2_tangency = None
    /\ ret_tangency = None /\ sd_tangency = None
    /\ w_tangency_optimal = None
    /\ w1_optimal = None /\ w2_optimal = None /\ w_rf_optimal = None
    /\ ret_optimal = None /\ sd_optimal = None /\ utility_optimal = None
    /\ sd_args \in [w1 : SdWeights, sd1 : SdStdDevs, sd2 : SdStdDevs, rho : SdRhos]
    /\ sd_result = None

\* lines 57-59
CallPortfolioSd ==
    /\ pc = "sd_call"
    /\ sd_result' = portfolio_sd(sd_args.w1, sd_args.sd1, sd_args.sd2, sd_args.rho)
    /\ pc' = "sd_returned"
    /\ UNCHANGED <<widgets, inputs, sharpe_ratios, tangency, w_tangency_optimal,
                   allocation, characteristics, sd_args>>

NextSd == CallPortfolioSd

SpecSd == InitSd /\ [][NextSd]_vars

(***************************************************************************)
(* Helpers of the properties                                               *)
(***************************************************************************)
GridIndex == 0 .. GridN - 1

\* the Sharpe ratio of grid point i under the inputs of the current run
GridSharpe(i) == SharpeAt(weights(i), r_h, r_f, sd_h, sd_f, rho_hf, r_free)

\* the standard deviation of grid point i under the inputs of the current run
GridSd(i) == portfolio_sd(weights(i), sd_h, sd_f, rho_hf)

SharpeLt(a, b) == ~SharpeLe(b, a)

\* the widgets hold an input the data model calls invalid
InvalidInput ==
    \/ RLt(widgets.sd1, Zero)
    \/ RLt(widgets.sd2, Zero)
    \/ RLt(widgets.rho, Rat(-1, 1))
    \/ RLt(One, widgets.rho)
    \/ RLe(widgets.gamma, Zero)

TangencyFound == pc \in {"tangency", "share", "weights", "characteristics", "shown"}

TangencyKnown == pc \in {"share", "weights", "characteristics", "shown"}

ShareKnown == pc \in {"weights", "characteristics", "shown"}

WeightsKnown == pc \in {"characteristics", "shown"}

\* the slider positions the widget accepts
SliderValues == {g \in GammaValues : Accepts("gamma", g)}

\* the mean-variance objective of holding the share y of the tangency portfolio
Objective(y) ==
    RSub(RAdd(r_free, RMul(y, RSub(ret_tangency, r_free))),
         RMul(RDiv(gamma, Rat(2, 1)), SurdSquare(SurdScale(RAbs(y), sd_tangency))))

\* alternative shares: fixed ones, below 0 and above 1 included, and multiples of
\* the share the script chose
AltShares ==
    {Rat(-1, 1), Rat(-1, 2), Zero, Rat(1, 2), One, Rat(3, 2), Rat(2, 1)}
    \cup {RMul(Rat(2, 1), w_tangency_optimal), RDiv(w_tangency_optimal, Rat(2, 1)),
          RMul(Rat(3, 2), w_tangency_optimal), RNeg(w_tangency_optimal)}

(***************************************************************************)
(* Properties                                                              *)
(***************************************************************************)
\* C1: find_tangency_portfolio returns a weight1 that is a grid point of
\* linspace(0, 1, N), hence within [0, 1], together with the Sharpe ratio computed
\* at that grid point, and that Sharpe ratio is >= the Sharpe ratio of every grid
\* point, a grid point of standard deviation 0 counting as -inf.
C1_TangencyIsGridMaximum ==
    TangencyFound =>
        /\ \E i \in GridIndex :
              /\ w1_tangency = weights(i)
              /\ sharpe_tangency = GridSharpe(i)
        /\ RLe(Zero, w1_tangency) /\ RLe(w1_tangency, One)
        /\ \A j \in GridIndex : SharpeLe(GridSharpe(j), sharpe_tangency)

\* a valid input whose maximum is at an interior grid point, above other grid points
C1_Witness ==
    /\ TangencyFound
    /\ ~InvalidInput
    /\ RLt(Zero, w1_tangency) /\ RLt(w1_tangency, One)
    /\ sharpe_tangency # NegInf
    /\ \E j \in GridIndex : SharpeLt(GridSharpe(j), sharpe_tangency)

\* C2: the complete portfolio weights are weight1 = share * w1_tangency,
\* weight2 = share * (1 - w1_tangency), weightRiskFree = 1 - share, and they sum to 1,
\* in the stdDev > 0 branch and in the stdDev = 0 branch.
C2_WeightsSumToOne ==
    WeightsKnown =>
        /\ w1_optimal = RMul(w_tangency_optimal, w1_tangency)
        /\ w2_optimal = RMul(w_tangency_optimal, RSub(One, w1_tangency))
        /\ w_rf_optimal = RSub(One, w_tangency_optimal)
        /\ RAdd(RAdd(w_rf_optimal, w1_optimal), w2_optimal) = One

\* a short position in the tangency portfolio, split over both assets
C2_Witness ==
    /\ WeightsKnown
    /\ SurdGtZero(sd_tangency)
    /\ RLt(w_tangency_optimal, Zero)
    /\ RLt(Zero, w1_tangency) /\ RLt(w1_tangency, One)

\* C3: a computation whose input is invalid (correlation outside [-1, 1], a negative
\* stddev, gamma <= 0) is rejected and produces no tangency or complete-portfolio
\* result.
C3_InvalidInputRejected ==
    InvalidInput =>
        /\ w1_tangency = None /\ sd_tangency = None
        /\ w_tangency_optimal = None /\ w_rf_optimal = None
        /\ utility_optimal = None

\* C4 as stated: the weight find_tangency_portfolio returns has a portfolio standard
\* deviation > 0 for every valid input.
C4_ReturnedSdPositive ==
    (TangencyKnown /\ ~InvalidInput) => SurdGtZero(sd_tangency)

\* C4 amended: a grid sample whose standard deviation is 0 gets the Sharpe ratio
\* -inf; the returned weight1 has a standard deviation > 0 whenever some grid sample
\* has one; when every grid sample has standard deviation 0 the first sample,
\* weight1 = 0, is returned with the Sharpe ratio -inf.
C4_ZeroSdReturnedOnlyIfAllZero ==
    TangencyKnown =>
        /\ \A i \in GridIndex :
              ~SurdGtZero(GridSd(i)) => sharpe_ratios[i + 1] = NegInf
        /\ (\E i \in GridIndex : SurdGtZero(GridSd(i))) => SurdGtZero(sd_tangency)
        /\ (\A i \in GridIndex : ~SurdGtZero(GridSd(i))) =>
              /\ w1_tangency = Zero
              /\ sharpe_tangency = NegInf
              /\ sd_tangency = Sqrt(Zero)

\* some but not all grid samples have standard deviation 0 and all the others have a
\* negative Sharpe ratio
C4_Witness ==
    /\ TangencyKnown
    /\ ~InvalidInput
    /\ \E i \in GridIndex : GridSd(i) = Sqrt(Zero)
    /\ SurdGtZero(sd_tangency)
    /\ SharpeLt(sharpe_tangency, [ssq |-> Zero])

\* C5: among the grid samples that share the maximum Sharpe ratio the one with the
\* smallest weight1 is returned: no grid point with a smaller weight1 has a Sharpe
\* ratio equal to or greater than the returned one.
C5_FirstMaximumWins ==
    TangencyFound =>
        \A j \in GridIndex :
            RLt(weights(j), w1_tangency) => SharpeLt(GridSharpe(j), sharpe_tangency)

\* a tie at the maximum, away from the first grid point: a later grid point has the
\* returned Sharpe ratio too
C5_Witness ==
    /\ TangencyFound
    /\ sharpe_tangency # NegInf
    /\ RLt(Zero, w1_tangency)
    /\ \E j \in GridIndex :
          /\ RLt(w1_tangency, weights(j))
          /\ GridSharpe(j) = sharpe_tangency

\* C6: when the tangency portfolio's stdDev is 0 the allocation takes the zero-share
\* branch: tangencyShare = 0, weight1 = weight2 = 0, weightRiskFree = 1,
\* expectedReturn = riskFreeRate, stdDev = 0, utility = riskFreeRate.
C6_ZeroShareBranch ==
    (TangencyKnown /\ sd_tangency = Sqrt(Zero)) =>
        /\ ShareKnown => w_tangency_optimal = Zero
        /\ WeightsKnown =>
              /\ w1_optimal = Zero
              /\ w2_optimal = Zero
              /\ w_rf_optimal = One
        /\ pc = "shown" =>
              /\ ret_optimal = r_free
              /\ sd_optimal = Sqrt(Zero)
              /\ utility_optimal = r_free

\* the degenerate tangency portfolio, computed to the end, with a nonzero excess return
C6_Witness ==
    /\ pc = "shown"
    /\ sd_tangency = Sqrt(Zero)
    /\ ret_tangency # r_free
    /\ utility_optimal = r_free

\* C7: the value portfolio_sd passes to the square root is never negative and the
\* result is a defined non-negative number, for every call.
C7_RadicandNonNegative ==
    pc = "sd_returned" =>
        /\ RLe(Zero, Radicand(sd_args.w1, sd_args.sd1, sd_args.sd2, sd_args.rho))
        /\ sd_result # NaN
        /\ RLe(Zero, sd_result.ssq)

\* C8: for the tangency portfolio of the run, with stdDev > 0, a larger gamma gives a
\* tangencyShare no larger in absolute value and a weightRiskFree no farther from 1,
\* strictly so when the excess return is not 0, and tangencyShare has the same sign
\* for every gamma; the share of the run is the one of the run's gamma.
C8_ShareShrinksWithGamma ==
    (ShareKnown /\ SurdGtZero(sd_tangency)) =>
        /\ w_tangency_optimal = TangencyShare(ret_tangency, sd_tangency, r_free, gamma)
        /\ \A ga \in SliderValues \cup {gamma}, gb \in SliderValues \cup {gamma} :
              LET sa == TangencyShare(ret_tangency, sd_tangency, r_free, ga)
                  sb == TangencyShare(ret_tangency, sd_tangency, r_free, gb)
                  da == RAbs(RSub(One, WeightRiskFree(sa)))
                  db == RAbs(RSub(One, WeightRiskFree(sb)))
              IN  /\ RSgn(sa) = RSgn(sb)
                  /\ RLt(gb, ga) =>
                        /\ RLe(RAbs(sa), RAbs(sb))
                        /\ RLe(da, db)
                        /\ ret_tangency # r_free =>
                              /\ RLt(RAbs(sa), RAbs(sb))
                              /\ RLt(da, db)

\* a run with a nonzero excess return whose gamma is not the largest slider position
C8_Witness ==
    /\ ShareKnown
    /\ SurdGtZero(sd_tangency)
    /\ ret_tangency # r_free
    /\ \E ga \in SliderValues :
          /\ RLt(gamma, ga)
          /\ RLt(RAbs(TangencyShare(ret_tangency, sd_tangency, r_free, ga)),
                 RAbs(w_tangency_optimal))

\* C9: with gamma > 0 and tangency stdDev > 0 the reported utility is >= the
\* mean-variance objective of every alternative share y, y < 0 and y > 1 included.
C9_UtilityIsMaximum ==
    (pc = "shown" /\ SurdGtZero(sd_tangency)) =>
        \A y \in AltShares : RLe(Objective(y), utility_optimal)

\* a leveraged optimum, strictly better than an alternative share
C9_Witness ==
    /\ pc = "shown"
    /\ SurdGtZero(sd_tangency)
    /\ RLt(One, w_tangency_optimal)
    /\ \E y \in AltShares : RLt(Objective(y), utility_optimal)

\* C10: the reported expected return is the weighted sum of the three reported
\* weights' returns, and the reported stdDev is >= 0 and equals |w1 + w2| times the
\* tangency stdDev.
C10_ReturnMatchesWeights ==
    pc = "shown" =>
        /\ ret_optimal =
              RAdd(RAdd(RMul(w_rf_optimal, r_free), RMul(w1_optimal, r_h)),
                   RMul(w2_optimal, r_f))
        /\ sd_optimal # NaN
        /\ RLe(Zero, sd_optimal.ssq)
        /\ sd_optimal = SurdScale(RAbs(RAdd(w1_optimal, w2_optimal)), sd_tangency)

\* a short position, where the share is negative and the stdDev is not
C10_Witness ==
    /\ pc = "shown"
    /\ RLt(w_tangency_optimal, Zero)
    /\ RLt(Zero, sd_optimal.ssq)
    /\ w1_optimal # Zero /\ w2_optimal # Zero

====
